---- MODULE Spec2Model ----
(***************************************************************************)
(* Model of src/main.go: the GitHub user activity reporter.                *)
(*                                                                         *)
(* One run of the program is a sequential walk through main and            *)
(* getGithubActivity.  The environment supplies the command line, the      *)
(* outcome of the single HTTP GET (transport error, or a status code with  *)
(* a body) and whether reading the body fails.  Standard output is the     *)
(* sequence of lines written so far.  Go strings are TLA+ strings; a JSON  *)
(* document is a tagged record.                                            *)
(***************************************************************************)
EXTENDS Integers, Sequences, FiniteSets, TLC

VARIABLES
    pc,         \* position of the single thread of control
    osArgs,     \* os.Args: program name followed by the positional arguments
    username,   \* parameter of getGithubActivity
    requests,   \* URLs on which http.Get was called, in order
    resp,       \* result of http.Get
    deferred,   \* deferred calls registered by getGithubActivity
    closes,     \* number of calls of resp.Body.Close
    readClosed, \* TRUE once resp.Body was read after being closed
    body,       \* bytes returned by io.ReadAll, as a JSON document
    events,     \* var events []Event
    idx,        \* position of the range loop over events (1-based)
    out,        \* lines written to standard output
    exitCode    \* process exit status; -1 while the process runs

vars == <<pc, osArgs, username, requests, resp, deferred, closes, readClosed,
          body, events, idx, out, exitCode>>

-----------------------------------------------------------------------------
(* Bounds of the model *)

MaxArgs == 2
MaxEvents == 2
MaxCommits == 3

-----------------------------------------------------------------------------
(* Characters and strings *)

Lower == <<"a","b","c","d","e","f","g","h","i","j","k","l","m",
           "n","o","p","q","r","s","t","u","v","w","x","y","z">>
Upper == <<"A","B","C","D","E","F","G","H","I","J","K","L","M",
           "N","O","P","Q","R","S","T","U","V","W","X","Y","Z">>
Digits == <<"0","1","2","3","4","5","6","7","8","9">>

IsLower(r) == \E i \in 1..26 : Lower[i] = r
IsUpper(r) == \E i \in 1..26 : Upper[i] = r
IsDigit(r) == \E i \in 1..10 : Digits[i] = r

\* unicode.ToTitle on the ASCII range
ToTitle(r) == IF IsLower(r) THEN Upper[CHOOSE i \in 1..26 : Lower[i] = r] ELSE r

\* strings.isSeparator on the ASCII range: alphanumerics and underscore are
\* not separators, every other character is.
isSeparator(r) == ~(IsDigit(r) \/ IsLower(r) \/ IsUpper(r) \/ r = "_")

\* The action strings the model feeds to the program, and their runes.
Actions == {"opened", "started", "Closed", "a b", "re-do", "x_y", "2nd"}

Runes(s) ==
    CASE s = ""        -> <<>>
      [] s = "opened"  -> <<"o","p","e","n","e","d">>
      [] s = "started" -> <<"s","t","a","r","t","e","d">>
      [] s = "Closed"  -> <<"C","l","o","s","e","d">>
      [] s = "a b"     -> <<"a"," ","b">>
      [] s = "re-do"   -> <<"r","e","-","d","o">>
      [] s = "x_y"     -> <<"x","_","y">>
      [] s = "2nd"     -> <<"2","n","d">>

RECURSIVE Join(_)
Join(rs) == IF rs = <<>> THEN "" ELSE Head(rs) \o Join(Tail(rs))

\* strings.Map with the closure of strings.Title: prev is the closure's
\* variable holding the previous rune.
RECURSIVE TitleMap(_, _)
TitleMap(rs, prev) ==
    IF rs = <<>> THEN <<>>
    ELSE <<IF isSeparator(prev) THEN ToTitle(Head(rs)) ELSE Head(rs)>>
         \o TitleMap(Tail(rs), Head(rs))

TitleFirstOnly(s) ==
    LET rs == Runes(s)
    IN  IF rs = <<>> THEN "" ELSE Join(<<ToTitle(Head(rs))>> \o Tail(rs))

\* strings.Title
Title(s) == Join(TitleMap(Runes(s), " "))

\* the %d verb
RECURSIVE Itoa(_)
Itoa(n) == IF n < 10 THEN Digits[n + 1] ELSE Itoa(n \div 10) \o Digits[(n % 10) + 1]

-----------------------------------------------------------------------------
(* JSON documents *)

JNull == [k |-> "null"]
JStr(s) == [k |-> "string", s |-> s]
JNum(n) == [k |-> "number", n |-> n]
JArr(a) == [k |-> "array", a |-> a]
JObj(o) == [k |-> "object", o |-> o]
\* bytes that are not a JSON document
Malformed == [k |-> "malformed"]

-----------------------------------------------------------------------------
(* The Go types and encoding/json's decoding into them *)

ZeroRepo == [Name |-> ""]
ZeroIssue == [Title |-> ""]
ZeroForkee == [FullName |-> ""]
ZeroPayload == [Action |-> "", RefType |-> "", Commits |-> <<>>,
                Issue |-> ZeroIssue, Forkee |-> ZeroForkee,
                PullRequest |-> ZeroIssue]
ZeroEvent == [Type |-> "", Repo |-> ZeroRepo, Payload |-> ZeroPayload]

Ok(v) == [err |-> FALSE, val |-> v]
Fail(v) == [err |-> TRUE, val |-> v]

MemberRequired(o, key) == IF key \in DOMAIN o THEN o[key] ELSE [k |-> "missing"]

\* The value decoded into a struct field: a key the object does not carry
\* leaves the field untouched, exactly as a null does.
Member(o, key) == IF key \in DOMAIN o THEN o[key] ELSE JNull

\* into a string field (fresh, hence "")
DecString(v) ==
    CASE v.k = "null"   -> Ok("")
      [] v.k = "string" -> Ok(v.s)
      [] OTHER          -> Fail("")

\* into Commits []any
DecCommits(v) ==
    CASE v.k = "null"  -> Ok(<<>>)
      [] v.k = "array" -> Ok(v.a)
      [] OTHER         -> Fail(<<>>)

DecRepo(v) ==
    CASE v.k = "null"   -> Ok(ZeroRepo)
      [] v.k = "object" ->
           LET n == DecString(Member(v.o, "name"))
           IN  [err |-> n.err, val |-> [Name |-> n.val]]
      [] OTHER          -> Fail(ZeroRepo)

DecIssue(v) ==
    CASE v.k = "null"   -> Ok(ZeroIssue)
      [] v.k = "object" ->
           LET t == DecString(Member(v.o, "title"))
           IN  [err |-> t.err, val |-> [Title |-> t.val]]
      [] OTHER          -> Fail(ZeroIssue)

DecForkee(v) ==
    CASE v.k = "null"   -> Ok(ZeroForkee)
      [] v.k = "object" ->
           LET f == DecString(Member(v.o, "full_name"))
           IN  [err |-> f.err, val |-> [FullName |-> f.val]]
      [] OTHER          -> Fail(ZeroForkee)

DecPayload(v) ==
    CASE v.k = "null"   -> Ok(ZeroPayload)
      [] v.k = "object" ->
           LET a == DecString(Member(v.o, "action"))
               r == DecString(Member(v.o, "ref_type"))
               c == DecCommits(Member(v.o, "commits"))
               i == DecIssue(Member(v.o, "issue"))
               f == DecForkee(Member(v.o, "forkee"))
               p == DecIssue(Member(v.o, "pull_request"))
           IN  [err |-> a.err \/ r.err \/ c.err \/ i.err \/ f.err \/ p.err,
                val |-> [Action |-> a.val, RefType |-> r.val,
                         Commits |-> c.val, Issue |-> i.val,
                         Forkee |-> f.val, PullRequest |-> p.val]]
      [] OTHER          -> Fail(ZeroPayload)

DecEvent(v) ==
    CASE v.k = "null"   -> Ok(ZeroEvent)
      [] v.k = "object" ->
           LET t == DecString(Member(v.o, "type"))
               r == DecRepo(Member(v.o, "repo"))
               p == DecPayload(Member(v.o, "payload"))
           IN  [err |-> t.err \/ r.err \/ p.err,
                val |-> [Type |-> t.val, Repo |-> r.val, Payload |-> p.val]]
      [] OTHER          -> Fail(ZeroEvent)

\* json.Unmarshal(body, &events) with events a nil []Event: a syntax error
\* is found before anything is stored; a null stores nothing; an array is
\* decoded element by element, a mismatching element being skipped and
\* reported at the end; any other document is a type mismatch.
Unmarshal(b) ==
    CASE b.k = "malformed" -> Fail(<<>>)
      [] b.k = "null"      -> Ok(<<>>)
      [] b.k = "array"     ->
           [err |-> \E j \in 1..Len(b.a) : DecEvent(b.a[j]).err,
            val |-> [j \in 1..Len(b.a) |-> DecEvent(b.a[j]).val]]
      [] OTHER             -> Fail(<<>>)

-----------------------------------------------------------------------------
(* The lines the program prints *)

UsageLine == "Usage: go run github_activity.go <username>"
ApiURL(u) == "https://api.github.com/users/" \o u \o "/events"
ReachLine(reason) == "Error: Could not reach GitHub API. Reason: " \o reason
NotFoundLine(u) == "Error: Could not find GitHub user '" \o u \o "'."
StatusLine(code) ==
    "Error: Received status code " \o Itoa(code) \o " from GitHub API."
ReadLine(reason) == "Error: Failed to read response body. Reason: " \o reason
ParseLine(reason) ==
    "Error: Failed to parse the response from the GitHub API. Reason: " \o reason
HeaderLine(u) == "Recent Activity for " \o u \o ":"
NoActivityLine == "No recent public activity found."

RenderFoldCase(event) ==
    CASE event.Type \in {"PushEvent", "pushevent"} ->
           "- Pushed " \o Itoa(Len(event.Payload.Commits)) \o " commit(s) to "
           \o event.Repo.Name
      [] event.Type = "CreateEvent" ->
           "- Created a new " \o event.Payload.RefType \o " in "
           \o event.Repo.Name
      [] event.Type = "IssuesEvent" ->
           "- " \o Title(event.Payload.Action) \o " an issue in "
           \o event.Repo.Name \o ": \"" \o event.Payload.Issue.Title \o "\""
      [] event.Type = "IssueCommentEvent" ->
           "- Commented on an issue in " \o event.Repo.Name \o ": \""
           \o event.Payload.Issue.Title \o "\""
      [] event.Type = "WatchEvent" ->
           "- " \o Title(event.Payload.Action) \o " watching "
           \o event.Repo.Name
      [] event.Type = "ForkEvent" ->
           "- Forked " \o event.Repo.Name \o " to "
           \o event.Payload.Forkee.FullName
      [] event.Type = "PullRequestEvent" ->
           "- " \o Title(event.Payload.Action) \o " a pull request in "
           \o event.Repo.Name \o ": \"" \o event.Payload.PullRequest.Title
           \o "\""
      [] event.Type = "PublicEvent" ->
           "- Made " \o event.Repo.Name \o " public"
      [] OTHER ->
           "- Performed a " \o event.Type \o " on " \o event.Repo.Name

\* the switch on event.Type: the line printed for one event
Render(event) ==
    CASE event.Type = "PushEvent" ->
           "- Pushed " \o Itoa(Len(event.Payload.Commits)) \o " commit(s) to "
           \o event.Repo.Name
      [] event.Type = "CreateEvent" ->
           "- Created a new " \o event.Payload.RefType \o " in "
           \o event.Repo.Name
      [] event.Type = "IssuesEvent" ->
           "- " \o Title(event.Payload.Action) \o " an issue in "
           \o event.Repo.Name \o ": \"" \o event.Payload.Issue.Title \o "\""
      [] event.Type = "IssueCommentEvent" ->
           "- Commented on an issue in " \o event.Repo.Name \o ": \""
           \o event.Payload.Issue.Title \o "\""
      [] event.Type = "WatchEvent" ->
           "- " \o Title(event.Payload.Action) \o " watching "
           \o event.Repo.Name
      [] event.Type = "ForkEvent" ->
           "- Forked " \o event.Repo.Name \o " to "
           \o event.Payload.Forkee.FullName
      [] event.Type = "PullRequestEvent" ->
           "- " \o Title(event.Payload.Action) \o " a pull request in "
           \o event.Repo.Name \o ": \"" \o event.Payload.PullRequest.Title
           \o "\""
      [] event.Type = "PublicEvent" ->
           "- Made " \o event.Repo.Name \o " public"
      [] OTHER ->
           "- Performed a " \o event.Type \o " on " \o event.Repo.Name

-----------------------------------------------------------------------------
(* What the environment can supply *)

Usernames == {"octocat", ""}

\* the positional arguments of one invocation
ArgLists == UNION {[1..n -> Usernames] : n \in 0..MaxArgs}

Statuses == {200, 404, 500, 403, 301, 204}
NetErrors == {"dial tcp: lookup api.github.com: no such host",
              "context deadline exceeded"}

Recognized == {"PushEvent", "CreateEvent", "IssuesEvent", "IssueCommentEvent",
               "WatchEvent", "ForkEvent", "PullRequestEvent", "PublicEvent"}
OtherTags == {"GollumEvent", "", "pushevent", "PUSHEVENT", "Push"}

\* n opaque commit entries
Commits(n) == [j \in 1..n |-> JObj([sha |-> JStr("c")])]

\* The optional fields of an event, named by the key that carries them.
PayloadKeys == {"action", "ref_type", "commits", "issue", "pull_request",
                "forkee"}
Fields == PayloadKeys \cup {"repo"}

\* An event object of the feed.  Each field in A is left out (mode "absent")
\* or carried with an empty value (mode "empty"); "id" is a key the program
\* does not declare.
EventObj(type, action, repo, ncommits, A, mode) ==
    LET gone(f) == f \in A /\ mode = "absent"
        emp(f) == f \in A /\ mode = "empty"
        str(f, s) == JStr(IF emp(f) THEN "" ELSE s)
        pval(f) ==
            CASE f = "action"       -> str(f, action)
              [] f = "ref_type"     -> str(f, "branch")
              [] f = "commits"      ->
                   JArr(IF emp(f) THEN <<>> ELSE Commits(ncommits))
              [] f = "issue"        -> JObj([title |-> str(f, "Bug")])
              [] f = "pull_request" -> JObj([title |-> str(f, "Fix")])
              [] f = "forkee"       -> JObj([full_name |-> str(f, "me/y")])
        payload == JObj([f \in {g \in PayloadKeys : ~gone(g)} |-> pval(f)])
        eval(f) ==
            CASE f = "id"      -> JStr("4711")
              [] f = "type"    -> JStr(type)
              [] f = "repo"    -> JObj([name |-> str(f, repo)])
              [] f = "payload" -> payload
    IN  JObj([f \in {g \in {"id", "type", "repo", "payload"} : ~gone(g)}
                |-> eval(f)])

FullEvent(type, action) == EventObj(type, action, "x/y", 3, {}, "absent")

\* every category with every subset of its fields absent or empty
FieldElems ==
    {EventObj(t, "opened", "x/y", 3, A, m) :
        t \in Recognized \cup {"GollumEvent"}, A \in SUBSET Fields,
        m \in {"absent", "empty"}}

\* every action on the categories that print it
ActionElems ==
    {FullEvent(t, a) :
        t \in {"IssuesEvent", "WatchEvent", "PullRequestEvent"}, a \in Actions}

\* unrecognized tags, other repositories and commit counts
TagElems ==
    {FullEvent(t, "opened") : t \in OtherTags}
    \cup {EventObj("GollumEvent", "opened", "a/b", 3, {}, "absent")}
    \cup {EventObj("PushEvent", "opened", "x/y", n, {}, "absent") :
            n \in (0..MaxCommits) \cup {12}}

\* array elements that are not well-formed event objects, and event objects
\* with nulls, hollow objects and mistyped fields
OddElems ==
    {JNull, JNum(7), JStr("PushEvent"), JArr(<<>>), JObj(<<>>),
     JObj([type |-> JNum(1)]),
     JObj([type |-> JNull, repo |-> JNull, payload |-> JNull]),
     JObj([type |-> JStr("PushEvent"), repo |-> JObj(<<>>),
           payload |-> JObj(<<>>)]),
     JObj([type |-> JStr("IssuesEvent"), repo |-> JObj([name |-> JStr("x/y")]),
           payload |-> JObj([action |-> JNull, issue |-> JObj(<<>>)])]),
     JObj([type |-> JStr("PushEvent"), repo |-> JStr("x/y")]),
     JObj([type |-> JStr("PushEvent"),
           payload |-> JObj([commits |-> JNum(3)])]),
     JObj([type |-> JStr("ForkEvent"),
           payload |-> JObj([forkee |-> JStr("me/y")])])}

Elems == FieldElems \cup ActionElems \cup TagElems \cup OddElems

\* the elements that may follow the first one
CoreElems == {FullEvent("PushEvent", "opened"),
              FullEvent("IssuesEvent", "opened"),
              JNum(7)}

Tails == UNION {[1..n -> CoreElems] : n \in 0..(MaxEvents - 1)}

\* bodies of a 200 response
Bodies ==
    {Malformed, JNull, JNum(1), JStr("[]"), [k |-> "bool", b |-> TRUE],
     JObj(<<>>), JObj([message |-> JStr("Not Found")]), JArr(<<>>)}
    \cup {JArr(<<e>> \o t) : e \in Elems, t \in Tails}

Nil == [err |-> "", StatusCode |-> 0, Body |-> JNull, readErr |-> FALSE]

\* what http.Get can return
Outcomes ==
    {[err |-> e, StatusCode |-> 0, Body |-> JNull, readErr |-> FALSE] :
        e \in NetErrors}
    \cup {[err |-> "", StatusCode |-> c,
           Body |-> JObj([message |-> JStr("Not Found")]),
           readErr |-> FALSE] : c \in Statuses \ {200}}
    \cup {[err |-> "", StatusCode |-> 200, Body |-> b, readErr |-> FALSE] :
            b \in Bodies}
    \cup {[err |-> "", StatusCode |-> 200, Body |-> JArr(<<>>),
           readErr |-> TRUE]}

NoBody == [k |-> "none"]

-----------------------------------------------------------------------------
(* The program *)

BadArgsTooFew(a) == Len(a) < 2

\* main's test on os.Args
BadArgs(a) == Len(a) # 2

ClassifyLenient(code) == IF code = 404 THEN "notfound" ELSE "ok"

ClassifyGenericFirst(code) ==
    IF code # 200 THEN "status" ELSE IF code = 404 THEN "notfound" ELSE "ok"

\* the two tests on resp.StatusCode, in the order of the code
Classify(code) ==
    IF code = 404 THEN "notfound" ELSE IF code # 200 THEN "status" ELSE "ok"

NoDefer == <<>>

\* the defer statement that follows a successful http.Get
DeferClose == <<"resp.Body.Close">>

NoActivityUpToOne(evs) == Len(evs) <= 1

\* the test that selects the "no activity" message
NoActivity(evs) == Len(evs) = 0

CurrentReversed(evs, i) == evs[Len(evs) + 1 - i]

\* the element the range loop hands to its i-th iteration
Current(evs, i) == evs[i]

ParseReason(b) ==
    IF b.k = "malformed" THEN "invalid character 'x' looking for beginning of value"
    ELSE "json: cannot unmarshal value into Go value of type []main.Event"

Init ==
    /\ pc = "main"
    /\ osArgs \in {<<"github_activity">> \o a : a \in ArgLists}
    /\ username = ""
    /\ requests = <<>>
    /\ resp = Nil
    /\ deferred = <<>>
    /\ closes = 0
    /\ readClosed = FALSE
    /\ body = NoBody
    /\ events = <<>>
    /\ idx = 0
    /\ out = <<>>
    /\ exitCode = -1

\* main: the argument check, then the call of getGithubActivity
Main ==
    /\ pc = "main"
    /\ IF BadArgs(osArgs)
       THEN /\ out' = Append(out, UsageLine)
            /\ exitCode' = 1
            /\ pc' = "exited"
            /\ UNCHANGED username
       ELSE /\ username' = osArgs[2]
            /\ pc' = "get"
            /\ UNCHANGED <<out, exitCode>>
    /\ UNCHANGED <<osArgs, requests, resp, deferred, closes, readClosed, body,
                   events, idx>>

\* http.Get, its error branch and the defer of resp.Body.Close
HttpGet ==
    /\ pc = "get"
    /\ \E r \in Outcomes :
         /\ requests' = Append(requests, ApiURL(username))
         /\ resp' = r
         /\ IF r.err # ""
            THEN /\ out' = Append(out, ReachLine(r.err))
                 /\ pc' = "ret"
                 /\ UNCHANGED deferred
            ELSE /\ deferred' = DeferClose \o deferred
                 /\ pc' = "status"
                 /\ UNCHANGED out
    /\ UNCHANGED <<osArgs, username, closes, readClosed, body, events, idx,
                   exitCode>>

\* the status code tests
CheckStatus ==
    /\ pc = "status"
    /\ LET c == Classify(resp.StatusCode)
       IN  CASE c = "notfound" ->
                  /\ out' = Append(out, NotFoundLine(username))
                  /\ pc' = "ret"
             [] c = "status" ->
                  /\ out' = Append(out, StatusLine(resp.StatusCode))
                  /\ pc' = "ret"
             [] OTHER ->
                  /\ pc' = "read"
                  /\ UNCHANGED out
    /\ UNCHANGED <<osArgs, username, requests, resp, deferred, closes,
                   readClosed, body, events, idx, exitCode>>

\* io.ReadAll(resp.Body)
ReadBody ==
    /\ pc = "read"
    /\ readClosed' = (readClosed \/ closes > 0)
    /\ IF resp.readErr
       THEN /\ out' = Append(out, ReadLine("unexpected EOF"))
            /\ pc' = "ret"
            /\ UNCHANGED body
       ELSE /\ body' = resp.Body
            /\ pc' = "decode"
            /\ UNCHANGED out
    /\ UNCHANGED <<osArgs, username, requests, resp, deferred, closes, events,
                   idx, exitCode>>

\* json.Unmarshal(body, &events)
Decode ==
    /\ pc = "decode"
    /\ LET u == Unmarshal(body)
       IN  /\ events' = u.val
           /\ IF u.err
              THEN /\ out' = Append(out, ParseLine(ParseReason(body)))
                   /\ pc' = "ret"
              ELSE /\ pc' = "header"
                   /\ UNCHANGED out
    /\ UNCHANGED <<osArgs, username, requests, resp, deferred, closes,
                   readClosed, body, idx, exitCode>>

\* the header (a line and a blank line) and the empty-list branch
PrintHeader ==
    /\ pc = "header"
    /\ IF NoActivity(events)
       THEN /\ out' = out \o <<HeaderLine(username), "", NoActivityLine>>
            /\ pc' = "ret"
            /\ UNCHANGED idx
       ELSE /\ out' = out \o <<HeaderLine(username), "">>
            /\ pc' = "loop"
            /\ idx' = 1
    /\ UNCHANGED <<osArgs, username, requests, resp, deferred, closes,
                   readClosed, body, events, exitCode>>

\* one iteration of the range loop
RenderEvent ==
    /\ pc = "loop"
    /\ out' = Append(out, Render(Current(events, idx)))
    /\ idx' = idx + 1
    /\ pc' = IF idx = Len(events) THEN "ret" ELSE "loop"
    /\ UNCHANGED <<osArgs, username, requests, resp, deferred, closes,
                   readClosed, body, events, exitCode>>

\* getGithubActivity returns: the deferred calls run, then main returns
Return ==
    /\ pc = "ret"
    /\ closes' = closes + Len(deferred)
    /\ deferred' = <<>>
    /\ pc' = "done"
    /\ exitCode' = 0
    /\ UNCHANGED <<osArgs, username, requests, resp, readClosed, body, events,
                   idx, out>>

Next ==
    \/ Main
    \/ HttpGet
    \/ CheckStatus
    \/ ReadBody
    \/ Decode
    \/ PrintHeader
    \/ RenderEvent
    \/ Return

Spec == Init /\ [][Next]_vars

-----------------------------------------------------------------------------
(* Vocabulary of the properties *)

Lines == {out[j] : j \in 1..Len(out)}

ParseReasons == {ParseReason(Malformed), ParseReason(JNull)}

\* every error message the program can print
ErrLines ==
    {ReachLine(e) : e \in NetErrors}
    \cup {NotFoundLine(u) : u \in Usernames}
    \cup {StatusLine(c) : c \in Statuses}
    \cup {ReadLine("unexpected EOF")}
    \cup {ParseLine(r) : r \in ParseReasons}

NumErrors == Cardinality({j \in 1..Len(out) : out[j] \in ErrLines})

HeaderPrinted == HeaderLine(username) \in Lines

\* a line that is neither usage, error, header, blank nor "no activity"
IsEventLine(l) ==
    l \notin ErrLines \cup {UsageLine, HeaderLine(username), "", NoActivityLine}

\* http.Get returned a response
GotResponse == requests # <<>> /\ resp.err = ""

\* a 200 response whose body was read completely
Read200 == GotResponse /\ resp.StatusCode = 200 /\ ~resp.readErr

\* number of loop iterations completed
Printed ==
    IF pc = "loop" THEN idx - 1
    ELSE IF pc \in {"ret", "done"} /\ HeaderPrinted /\ NoActivityLine \notin Lines
         THEN Len(events)
         ELSE 0

\* the line of the i-th event, "" when it was not written
EventLine(i) == IF 2 + i <= Len(out) THEN out[2 + i] ELSE ""

-----------------------------------------------------------------------------
\* C1: after a 200 response whose body decodes to N >= 1 events, the output
\* is the header, a blank line and exactly N event lines, the i-th being the
\* line of the i-th element of the input; while the loop runs, the lines
\* written so far are those of the elements already visited, in order.
C1_OrderPreserving ==
    (Read200 /\ body.k = "array" /\ ~Unmarshal(body).err /\ Len(body.a) >= 1
     /\ pc \in {"loop", "ret", "done"})
    => /\ Printed = (IF pc = "loop" THEN idx - 1 ELSE Len(body.a))
       /\ Len(out) = 2 + Printed
       /\ out[1] = HeaderLine(username)
       /\ out[2] = ""
       /\ \A i \in 1..Printed :
            EventLine(i) = Render(DecEvent(body.a[i]).val)

C1_Witness ==
    /\ pc = "done"
    /\ Read200
    /\ body.k = "array"
    /\ Len(body.a) = MaxEvents
    /\ Len(out) = 2 + MaxEvents
    /\ \A i, j \in 1..MaxEvents : i # j => out[2 + i] # out[2 + j]

\* C2: once the status tests ran, 404 has printed the "could not find user"
\* line naming the username and ended the run, any other status different
\* from 200 has printed the line carrying that code and ended the run, and
\* only 200 goes on to read the body; 404 is never printed as a status code.
C2_StatusClassification ==
    (GotResponse /\ pc # "status")
    => /\ resp.StatusCode = 404
            => /\ out = <<NotFoundLine(username)>>
               /\ pc \in {"ret", "done"}
               /\ body = NoBody
       /\ resp.StatusCode \notin {200, 404}
            => /\ out = <<StatusLine(resp.StatusCode)>>
               /\ pc \in {"ret", "done"}
               /\ body = NoBody
       /\ resp.StatusCode = 500
            => out = <<"Error: Received status code 500 from GitHub API.">>
       /\ resp.StatusCode = 200
            => /\ \A u \in Usernames : NotFoundLine(u) \notin Lines
               /\ \A c \in Statuses : StatusLine(c) \notin Lines
       /\ (pc \in {"read", "decode", "header", "loop"} \/ body # NoBody
           \/ ReadLine("unexpected EOF") \in Lines)
            => resp.StatusCode = 200
       /\ StatusLine(404) \notin Lines

C2_Witness ==
    /\ pc = "done"
    /\ GotResponse
    /\ resp.StatusCode = 404
    /\ username = "octocat"
    /\ out = <<"Error: Could not find GitHub user 'octocat'.">>

\* C3: at most one GET is issued and at most one error message printed; a
\* run that printed an error message printed nothing else and has ended;
\* each failure (transport, 404, other status, read, parse) ends with
\* exactly its message; the header is printed only after a 200 response
\* whose body was read and decoded without error.
C3_FailureIsTerminal ==
    /\ Len(requests) <= 1
    /\ NumErrors <= 1
    /\ NumErrors = 1
         => /\ Len(out) = 1
            /\ pc \in {"ret", "done"}
            /\ ~HeaderPrinted
    /\ (pc = "done" /\ requests # <<>>)
         => /\ resp.err # "" => out = <<ReachLine(resp.err)>>
            /\ (GotResponse /\ resp.StatusCode = 404)
                 => out = <<NotFoundLine(username)>>
            /\ (GotResponse /\ resp.StatusCode \notin {200, 404})
                 => out = <<StatusLine(resp.StatusCode)>>
            /\ (GotResponse /\ resp.StatusCode = 200 /\ resp.readErr)
                 => out = <<ReadLine("unexpected EOF")>>
            /\ (Read200 /\ Unmarshal(resp.Body).err)
                 => out = <<ParseLine(ParseReason(resp.Body))>>
    /\ (HeaderPrinted \/ \E j \in 1..Len(out) : IsEventLine(out[j]))
         => /\ Read200
            /\ body = resp.Body
            /\ ~Unmarshal(body).err
            /\ pc \in {"loop", "ret", "done"}

C3_Witness ==
    /\ pc = "done"
    /\ Read200
    /\ resp.Body.k = "array"
    /\ Len(resp.Body.a) = 2
    /\ Unmarshal(resp.Body).err
    /\ Len(requests) = 1
    /\ Len(out) = 1
    /\ out[1] \in {ParseLine(r) : r \in ParseReasons}

\* C4: a 200 response whose body is the empty array ends with exactly the
\* header, a blank line and the "no activity" line; and that line is only
\* ever printed for a decoded list of length 0.
C4_EmptyListIsSuccess ==
    /\ (pc \in {"ret", "done"} /\ Read200 /\ resp.Body = JArr(<<>>))
         => out = <<HeaderLine(username), "", NoActivityLine>>
    /\ NoActivityLine \in Lines
         => /\ Read200
            /\ body = resp.Body
            /\ ~Unmarshal(body).err
            /\ Len(Unmarshal(body).val) = 0
            /\ Len(events) = 0
            /\ NumErrors = 0
            /\ Len(out) = 3

C4_Witness ==
    /\ pc = "done"
    /\ Read200
    /\ resp.Body = JArr(<<>>)
    /\ username = "octocat"
    /\ out = <<"Recent Activity for octocat:", "",
               "No recent public activity found.">>

\* C5: a 200 response whose body is malformed or is a JSON document other
\* than an array ends with the parse error and without the header, the
\* "no activity" line or an event line.
C5_NonArrayRejected ==
    (pc = "done" /\ Read200 /\ resp.Body.k # "array")
    => /\ out = <<ParseLine(ParseReason(resp.Body))>>
       /\ ~HeaderPrinted
       /\ NoActivityLine \notin Lines

\* C6: with zero or more than one positional argument the program prints
\* only the usage line, exits with status 1 and issues no request; with
\* exactly one argument it never prints the usage line and the argument is,
\* unchanged, the username of the one request.
C6_ArgumentGate ==
    /\ (Len(osArgs) - 1 # 1 /\ pc # "main")
         => /\ pc = "exited"
            /\ out = <<UsageLine>>
            /\ exitCode = 1
            /\ requests = <<>>
    /\ Len(osArgs) - 1 = 1
         => /\ UsageLine \notin Lines
            /\ exitCode # 1
            /\ pc # "exited"
            /\ pc # "main" => username = osArgs[2]
            /\ requests # <<>> => requests = <<ApiURL(osArgs[2])>>

C6_Witness ==
    /\ pc = "exited"
    /\ Len(osArgs) - 1 = 2
    /\ out = <<UsageLine>>
    /\ exitCode = 1

\* The issues, watch and pull_request lines around a given action token.
ActionLine(e, token) ==
    CASE e.Type = "IssuesEvent" ->
           "- " \o token \o " an issue in " \o e.Repo.Name \o ": \""
           \o e.Payload.Issue.Title \o "\""
      [] e.Type = "WatchEvent" ->
           "- " \o token \o " watching " \o e.Repo.Name
      [] e.Type = "PullRequestEvent" ->
           "- " \o token \o " a pull request in " \o e.Repo.Name \o ": \""
           \o e.Payload.PullRequest.Title \o "\""

PrintsAction(e) == e.Type \in {"IssuesEvent", "WatchEvent", "PullRequestEvent"}

\* the action with its first rune upper-cased and the rest verbatim
FirstUpper(s) ==
    LET rs == Runes(s)
    IN  Join([j \in 1..Len(rs) |-> IF j = 1 THEN ToTitle(rs[j]) ELSE rs[j]])

\* the action with every rune that starts the string or follows a separator
\* upper-cased and the rest verbatim
WordInitialUpper(s) ==
    LET rs == Runes(s)
    IN  Join([j \in 1..Len(rs) |->
                IF j = 1 \/ isSeparator(rs[j - 1]) THEN ToTitle(rs[j])
                ELSE rs[j]])

\* C7 (as stated): in the issues, watch and pull_request lines the action
\* appears with only its first letter upper-cased, every other character
\* unchanged, also for actions of several words.
C7_FirstLetterOnly ==
    \A i \in 1..Printed :
        PrintsAction(events[i])
        => EventLine(i) = ActionLine(events[i], FirstUpper(events[i].Payload.Action))

\* C7 (amended): in the issues, watch and pull_request lines the action
\* appears with the first letter of every word upper-cased (a letter at the
\* start, or following a character other than a letter, a digit or an
\* underscore) and every other character unchanged.
C7_WordInitial ==
    \A i \in 1..Printed :
        PrintsAction(events[i])
        => EventLine(i) = ActionLine(events[i], WordInitialUpper(events[i].Payload.Action))

C7_Witness ==
    /\ pc = "done"
    /\ Printed >= 1
    /\ events[1].Type = "IssuesEvent"
    /\ events[1].Payload.Action = "a b"
    /\ out[3] = "- A B an issue in x/y: \"Bug\""

\* the line the table of templates gives for a tag and the event's fields
TableLine(e) ==
    LET repo == e.Repo.Name
        p == e.Payload
    IN  IF e.Type \notin Recognized
        THEN "- Performed a " \o e.Type \o " on " \o repo
        ELSE [PushEvent |-> "- Pushed " \o Itoa(Len(p.Commits))
                              \o " commit(s) to " \o repo,
              CreateEvent |-> "- Created a new " \o p.RefType \o " in " \o repo,
              IssuesEvent |-> "- " \o WordInitialUpper(p.Action)
                              \o " an issue in " \o repo \o ": \""
                              \o p.Issue.Title \o "\"",
              IssueCommentEvent |-> "- Commented on an issue in " \o repo
                              \o ": \"" \o p.Issue.Title \o "\"",
              WatchEvent |-> "- " \o WordInitialUpper(p.Action)
                              \o " watching " \o repo,
              ForkEvent |-> "- Forked " \o repo \o " to " \o p.Forkee.FullName,
              PullRequestEvent |-> "- " \o WordInitialUpper(p.Action)
                              \o " a pull request in " \o repo \o ": \""
                              \o p.PullRequest.Title \o "\"",
              PublicEvent |-> "- Made " \o repo \o " public"][e.Type]

\* C8: every event yields exactly one line, chosen by its tag alone: each
\* of the eight recognized tags its own template over the repo name and the
\* payload fields (push counting the commits), every other tag (empty, or
\* differing in letter case) the fallback line carrying the raw tag.
C8_TemplateByTag ==
    /\ pc \in {"loop", "ret", "done"} => Len(out) = 2 + Printed
                                         \/ (Printed = 0 /\ Len(out) \in {1, 3})
    /\ \A i \in 1..Printed :
         LET e == events[i]
         IN  /\ EventLine(i) = TableLine(e)
             /\ (e.Type = "PushEvent" /\ Len(e.Payload.Commits) = 3
                 /\ e.Repo.Name = "x/y")
                  => EventLine(i) = "- Pushed 3 commit(s) to x/y"
             /\ (e.Type = "GollumEvent" /\ e.Repo.Name = "a/b")
                  => EventLine(i) = "- Performed a GollumEvent on a/b"
             /\ (e.Type = "pushevent" /\ e.Repo.Name = "x/y")
                  => EventLine(i) = "- Performed a pushevent on x/y"
             /\ (e.Type = "" /\ e.Repo.Name = "x/y")
                  => EventLine(i) = "- Performed a  on x/y"

C8_Witness ==
    /\ pc = "done"
    /\ Printed = 2
    /\ events[1].Type = "pushevent"
    /\ events[2].Type = "PushEvent"
    /\ out[3] = "- Performed a pushevent on x/y"
    /\ out[4] = "- Pushed 3 commit(s) to x/y"

\* Reading an event object as written, a key that is absent giving the
\* empty text or the empty sequence.
RawStr(o, key) == IF key \in DOMAIN o THEN o[key].s ELSE ""
RawObj(o, key) == IF key \in DOMAIN o THEN o[key].o ELSE <<>>
RawEvent(v) ==
    LET p == RawObj(v.o, "payload")
    IN  [Type |-> RawStr(v.o, "type"),
         Repo |-> [Name |-> RawStr(RawObj(v.o, "repo"), "name")],
         Payload |->
            [Action |-> RawStr(p, "action"),
             RefType |-> RawStr(p, "ref_type"),
             Commits |-> IF "commits" \in DOMAIN p THEN p.commits.a ELSE <<>>,
             Issue |-> [Title |-> RawStr(RawObj(p, "issue"), "title")],
             Forkee |-> [FullName |-> RawStr(RawObj(p, "forkee"), "full_name")],
             PullRequest |->
                [Title |-> RawStr(RawObj(p, "pull_request"), "title")]]]

\* an object whose keys, when present, carry values of the declared kind
KeyIs(o, key, kind) == key \in DOMAIN o => o[key].k = kind
TitledOK(o, key, inner) ==
    key \in DOMAIN o => (o[key].k = "object" /\ KeyIs(o[key].o, inner, "string"))
WellFormedEvent(v) ==
    /\ v.k = "object"
    /\ KeyIs(v.o, "type", "string")
    /\ TitledOK(v.o, "repo", "name")
    /\ KeyIs(v.o, "payload", "object")
    /\ LET p == RawObj(v.o, "payload")
       IN  /\ KeyIs(p, "action", "string")
           /\ KeyIs(p, "ref_type", "string")
           /\ KeyIs(p, "commits", "array")
           /\ TitledOK(p, "issue", "title")
           /\ TitledOK(p, "pull_request", "title")
           /\ TitledOK(p, "forkee", "full_name")
WellFormedFeed(b) ==
    /\ b.k = "array"
    /\ Len(b.a) >= 1
    /\ \A j \in 1..Len(b.a) : WellFormedEvent(b.a[j])

\* C9: a 200 response whose body is an array of event objects, each with
\* any of its fields absent or empty, is decoded without error and ends
\* with exactly one line per event, in which an absent string is the empty
\* text and absent commits count 0; the events after it are rendered as
\* they are written.
C9_AbsentFieldsHarmless ==
    (Read200 /\ WellFormedFeed(resp.Body))
    => /\ ~Unmarshal(resp.Body).err
       /\ pc \in {"loop", "ret", "done"}
            => /\ NumErrors = 0
               /\ Len(out) = 2 + Printed
               /\ \A i \in 1..Printed :
                    EventLine(i) = Render(RawEvent(resp.Body.a[i]))
       /\ pc = "done"
            => /\ Printed = Len(resp.Body.a)
               /\ \A i \in 1..Printed :
                    LET v == resp.Body.a[i]
                        e == RawEvent(v)
                    IN  /\ (e.Type = "PushEvent"
                            /\ "commits" \notin DOMAIN RawObj(v.o, "payload"))
                             => EventLine(i) = "- Pushed 0 commit(s) to "
                                               \o e.Repo.Name
                        /\ (e.Type = "CreateEvent"
                            /\ "ref_type" \notin DOMAIN RawObj(v.o, "payload"))
                             => EventLine(i) = "- Created a new  in "
                                               \o e.Repo.Name
                        /\ (e.Type = "PublicEvent" /\ "repo" \notin DOMAIN v.o)
                             => EventLine(i) = "- Made  public"

C9_Witness ==
    /\ pc = "done"
    /\ Read200
    /\ WellFormedFeed(resp.Body)
    /\ Len(resp.Body.a) = 2
    /\ RawStr(resp.Body.a[1].o, "type") = "PushEvent"
    /\ DOMAIN RawObj(resp.Body.a[1].o, "payload") = {}
    /\ "repo" \notin DOMAIN resp.Body.a[1].o
    /\ out[3] = "- Pushed 0 commit(s) to "
    /\ out[4] = "- Opened an issue in x/y: \"Bug\""

\* C10: the body is never read after being closed and is closed at most
\* once; it stays open until getGithubActivity returns; a run in which the
\* GET returned a response ends with the body closed exactly once, whatever
\* the path; a run whose GET failed, or that never issued one, closes none.
C10_BodyReleased ==
    /\ ~readClosed
    /\ closes <= 1
    /\ pc \in {"main", "get", "status", "read", "decode", "header", "loop",
               "ret", "exited"}
         => closes = 0
    /\ (pc \in {"status", "read", "decode", "header", "loop"}
        \/ (pc = "ret" /\ GotResponse))
         => deferred = <<"resp.Body.Close">>
    /\ (pc = "done" /\ GotResponse) => (closes = 1 /\ deferred = <<>>)
    /\ (requests # <<>> /\ resp.err # "") => (closes = 0 /\ deferred = <<>>)

C10_Witness ==
    /\ pc = "done"
    /\ Read200
    /\ Len(out) = 4
    /\ closes = 1
    /\ ~readClosed

====
